---- MODULE Spec2Model ----
(***************************************************************************)
(* Model of the authenticated API client (ApiClient), of the error         *)
(* classifier (ErrorHandler / useErrorHandler) and of the retry            *)
(* configuration of the react-query client of the MintFlow mobile app.     *)
(*                                                                         *)
(* ApiClient calls are asynchronous functions: every `await` of the        *)
(* source is a suspension point, so each call is a small process whose     *)
(* position is pc[c], and the steps of concurrent calls interleave.        *)
(* AsyncStorage operations are served in the order they are issued, so a   *)
(* storage operation takes effect in the step that issues it and its       *)
(* continuation runs in a later step.  Storage operations themselves are   *)
(* taken to succeed.                                                       *)
(***************************************************************************)
EXTENDS Integers, FiniteSets, Sequences, TLC

\* ------------------------------------------------------------------ bounds
\* Number of concurrent ApiClient calls.
NumCalls == 2

\* Number of readers (mounted hooks) of the one cache key.
NumReaders == 2

\* Number of fetches of the cache key that are issued at most.
MaxFetches == 3

\* Number of clock ticks of the cache model.
MaxTicks == 6

\* Largest retry count a query is configured with in the query-layer model.
MaxRetryConfig == 6

\* Largest retryCount handed to shouldRetry.
MaxRetryCount == 4

Calls == 1..NumCalls

\* ------------------------------------------------------- values of the model
\* JavaScript null / undefined for a token, a header or a response field.
Null == "null"

\* A status that is undefined (an error object without a status field).
Undefined == -1

StoreKeys == {"access_token", "refresh_token", "user"}

\* HTTP statuses the API server answers with in the ApiClient model.
Statuses == {200, 400, 401, 500}

\* The body of a response, by what handleResponse can do with it:
\*   "json"  content-type application/json, body parses to an object
\*   "null"  content-type application/json, body parses to JSON null
\*   "bad"   content-type application/json, body is not valid JSON
\*   "text"  any other content type (read with response.text())
Bodies == {"json", "null", "bad", "text"}

\* Substrings of an error message that isNetworkError looks for; a message is
\* represented by the set of these substrings that it contains.
Keywords == {"Network", "timeout", "connection"}

\* ErrorType enum.
NETWORK == "NETWORK"

AUTH == "AUTH"

VALIDATION == "VALIDATION"

SERVER == "SERVER"

UNKNOWN == "UNKNOWN"

ErrorType == {NETWORK, AUTH, VALIDATION, SERVER, UNKNOWN}

\* ------------------------------------------------- results an API call yields
\* A resolved ApiResponse.
OkResult(st) ==
    [ok |-> TRUE, name |-> "ApiResponse", status |-> st, words |-> {}, type |-> Null]

\* The ApiError object thrown by handleResponse: {message, status, code}.
ApiError(st) ==
    [ok |-> FALSE, name |-> "ApiError", status |-> st, words |-> {}, type |-> Null]

\* The TypeError a rejected fetch() throws in React Native
\* ("Network request failed"); it has no status.
TransportError ==
    [ok |-> FALSE, name |-> "TypeError", status |-> Undefined,
     words |-> {"Network"}, type |-> Null]

\* The SyntaxError of response.json() on a body that is not valid JSON.
JsonSyntaxError ==
    [ok |-> FALSE, name |-> "SyntaxError", status |-> Undefined,
     words |-> {}, type |-> Null]

\* The TypeError of reading `data.message` when data is null.
NullDataError ==
    [ok |-> FALSE, name |-> "TypeError", status |-> Undefined,
     words |-> {}, type |-> Null]

\* The call has not returned yet.
NoResult ==
    [ok |-> FALSE, name |-> "pending", status |-> Undefined,
     words |-> {}, type |-> Null]

\* ApiResponse.ok: status in the range 200-299.
ResponseOk(st) == st >= 200 /\ st <= 299

\* ------------------------------------------------------------- AsyncStorage
getItem(s, k) == s[k]

setItem(s, k, v) == [s EXCEPT ![k] = v]

multiRemove(s, keys) == [k \in DOMAIN s |-> IF k \in keys THEN Null ELSE s[k]]

\* The keys handleTokenExpiration removes when a refresh fails.
RefreshFailureKeysOnlyAccess == {"access_token", "user"}

RefreshFailureKeys == {"access_token", "refresh_token", "user"}

\* ---------------------------------------------------------------- variables
VARIABLES
    store,           \* AsyncStorage: key -> value or Null
    pc,              \* position of each API call
    token,           \* access token read by getAuthHeaders (Null if none)
    resp,            \* last response received for the call's own request
    refreshToken,    \* refresh token read by handleTokenExpiration
    data,            \* parsed body of the refresh response
    result,          \* what the call returned or threw to its caller
    sends,           \* number of times the call sent its own request
    refreshOutcome,  \* outcome of the refresh the call performed
    refreshCalls,    \* number of POSTs to the refresh endpoint so far
    failedSinceAccess, \* a refresh failed and no API call was started since
    authHeader,      \* the Authorization header of the request the call sent
    sessionEnded,    \* number of session-ended signals given to the host
    now,             \* cache: the clock, in ms
    entry,           \* cache: the entry of the key, or NoEntry
    inflight,        \* cache: the fetches of the key that are in flight
    issued,          \* cache: number of fetches issued so far
    rstate,          \* cache: position of each reader of the key
    rvalue,          \* cache: the value each reader was given
    arrived,         \* cache: issue numbers of the successful responses, in order of arrival
    qkind,           \* query layer: "query" or "mutation"
    retryOption,     \* query layer: the `retry` option of the hook, if any
    qpc,             \* query layer: position of the retryer
    failureCount,    \* query layer: retryer failure count
    attempts,        \* query layer: number of times the fetcher was run
    fetcherError,    \* query layer: the error of the last failed attempt
    qerror,          \* query layer: the error the caller received
    delay,           \* query layer: the delay (ms) before the pending retry
    fetcher,         \* query layer: the function the query runs
    caught,          \* query layer: the error the fetcher's catch block caught
    qdata,           \* query layer: the data the fetcher resolved with
    cerr,            \* classifier: the raw error handed to handleError
    cout,            \* classifier: the type of the AppError returned
    ccount,          \* classifier: the retryCount handed to shouldRetry
    cretry,          \* classifier: the verdict of shouldRetry
    effects          \* classifier: what handleError logged and showed, in order

apiVars == <<store, pc, token, resp, refreshToken, data, result, sends,
             refreshOutcome, refreshCalls, failedSinceAccess, authHeader>>

hostVars == <<sessionEnded>>

cacheVars == <<now, entry, inflight, issued, rstate, rvalue, arrived>>

queryVars == <<qkind, retryOption, qpc, failureCount, attempts, fetcherError,
               qerror, delay, fetcher, caught, qdata>>

classVars == <<cerr, cout, ccount, cretry, effects>>

vars == <<apiVars, queryVars, classVars, hostVars, cacheVars>>

\* ------------------------------------------------------------ ErrorHandler
\* JavaScript truthiness of error.status.
Truthy(st) == st # Undefined /\ st # 0

\* The type handleApiError gives an ApiError, by its status (switch, lines 25-58).
handleApiErrorTypeAuthAsUnknown(st) ==
    CASE st = 400 -> VALIDATION
      [] st = 401 -> UNKNOWN
      [] st = 403 -> AUTH
      [] st = 404 -> SERVER
      [] st = 429 -> SERVER
      [] st = 500 -> SERVER
      [] OTHER -> IF st >= 500 THEN SERVER ELSE UNKNOWN

handleApiErrorType(st) ==
    CASE st = 400 -> VALIDATION
      [] st = 401 -> AUTH
      [] st = 403 -> AUTH
      [] st = 404 -> SERVER
      [] st = 429 -> SERVER
      [] st = 500 -> SERVER
      [] OTHER -> IF st >= 500 THEN SERVER ELSE UNKNOWN

\* The value of `new Date()` when the AppError is made.
NewDate == "Date"

\* An AppError: its type, the error it was made from and its timestamp.
handleApiError(error) ==
    [type |-> handleApiErrorType(error.status), originalError |-> error,
     timestamp |-> NewDate]

handleNetworkError(error) ==
    [type |-> NETWORK, originalError |-> error, timestamp |-> NewDate]

handleGenericError(error) ==
    [type |-> UNKNOWN, originalError |-> error, timestamp |-> NewDate]

\* logError: the console.error line with the type and the timestamp of the
\* AppError, and the console.trace line of a development build.
logError(error, dev) ==
    <<[op |-> "console.error", type |-> error.type, timestamp |-> error.timestamp]>>
        \o (IF dev THEN <<[op |-> "console.trace", type |-> Null, timestamp |-> Null]>>
            ELSE <<>>)

\* showError: the toast of the AppError.
showError(error) ==
    <<[op |-> "Toast.show", type |-> error.type, timestamp |-> Null]>>

isNetworkError(error) ==
    \/ error.type = NETWORK
    \/ "Network" \in error.words
    \/ "timeout" \in error.words
    \/ "connection" \in error.words

isAuthError(error) ==
    \/ error.type = AUTH
    \/ error.status = 401
    \/ error.status = 403

\* The attempt limit inside shouldRetry.
maxRetriesPlusOne == 3 + 1

maxRetries == 3

shouldRetry(error, retryCount) ==
    IF retryCount >= maxRetries
    THEN FALSE
    ELSE \/ error.type = NETWORK
         \/ (error.type = SERVER /\ error.originalError.status >= 500)

\* useErrorHandler().handleError: the AppError it logs, shows and returns.
handleError(error) ==
    IF Truthy(error.status)
    THEN handleApiError(error)
    ELSE IF isNetworkError(error)
         THEN handleNetworkError(error)
         ELSE handleGenericError(error)

\* ---------------------------------------------------------------- ApiClient
\* What the refresh endpoint can answer with status OK: a body that is not
\* valid JSON, or {access_token, refresh_token?}.
NoData == [valid |-> FALSE, access_token |-> Null, refresh_token |-> Null]

RefreshData ==
    {NoData} \cup
    {[valid |-> TRUE, access_token |-> "T2", refresh_token |-> r] : r \in {Null, "R2"}}

NoResponse == [status |-> Undefined, body |-> Null]

\* The Authorization header of a request: none, or "Bearer <token>".
NoHeader == <<>>

Bearer(t) == <<"Bearer", t>>

\* The Authorization entry of the headers getAuthHeaders returns for the
\* token it read.
getAuthHeadersAlwaysBearer(t) == Bearer(t)

getAuthHeaders(t) == IF t # Null THEN Bearer(t) ELSE NoHeader

\* The Authorization entry of the headers upload() builds for the token it read.
uploadHeaders(t) == IF t # Null THEN Bearer(t) ELSE NoHeader

\* A signed-in store (after login) or an empty one (first start).
SignedIn == [k \in StoreKeys |->
                CASE k = "access_token" -> "T1"
                  [] k = "refresh_token" -> "R1"
                  [] OTHER -> "U"]

SignedOut == [k \in StoreKeys |-> Null]

\* The store a refresh without rotation leaves when a concurrent failed
\* refresh removed the tokens before its setItem('access_token').
AccessOnly == [k \in StoreKeys |-> IF k = "access_token" THEN "T2" ELSE Null]

QueryIdle ==
    /\ qkind = "query"
    /\ retryOption = Undefined
    /\ qpc = "idle"
    /\ failureCount = 0
    /\ attempts = 0
    /\ fetcherError = NoResult
    /\ qerror = NoResult
    /\ delay = 0
    /\ fetcher = "api"
    /\ caught = NoResult
    /\ qdata = Null

\* The cache part before any read of the key.
Readers == 1..NumReaders

NoEntry == [value |-> 0, fetchedAt |-> 0, issue |-> 0]

CacheIdle ==
    /\ now = 0
    /\ entry = NoEntry
    /\ inflight = {}
    /\ issued = 0
    /\ rstate = [r \in Readers |-> "idle"]
    /\ rvalue = [r \in Readers |-> 0]
    /\ arrived = <<>>

ClassIdle ==
    /\ cerr = NoResult
    /\ cout = Null
    /\ ccount = 0
    /\ cretry = Null
    /\ effects = <<>>

Init ==
    /\ store \in {SignedIn, SignedOut, AccessOnly}
    /\ pc = [c \in Calls |-> "idle"]
    /\ token = [c \in Calls |-> Null]
    /\ resp = [c \in Calls |-> NoResponse]
    /\ refreshToken = [c \in Calls |-> Null]
    /\ data = [c \in Calls |-> NoData]
    /\ result = [c \in Calls |-> NoResult]
    /\ sends = [c \in Calls |-> 0]
    /\ refreshOutcome = [c \in Calls |-> "none"]
    /\ refreshCalls = 0
    /\ failedSinceAccess = FALSE
    /\ authHeader = [c \in Calls |-> NoHeader]
    /\ sessionEnded = 0
    /\ QueryIdle
    /\ ClassIdle
    /\ CacheIdle

\* get/post/put/patch/delete/upload, up to the first await: getAuthHeaders
\* issues AsyncStorage.getItem('access_token').
Call(c) ==
    /\ pc[c] = "idle"
    /\ token' = [token EXCEPT ![c] = getItem(store, "access_token")]
    /\ pc' = [pc EXCEPT ![c] = "getAuthHeaders"]
    /\ failedSinceAccess' = FALSE
    /\ UNCHANGED <<store, resp, refreshToken, data, result, sends,
                   refreshOutcome, refreshCalls>>
    /\ UNCHANGED authHeader
    /\ UNCHANGED <<queryVars, classVars, hostVars, cacheVars>>

\* upload(), up to its first await: it issues
\* AsyncStorage.getItem('access_token') itself.
Upload(c) ==
    /\ pc[c] = "idle"
    /\ token' = [token EXCEPT ![c] = getItem(store, "access_token")]
    /\ pc' = [pc EXCEPT ![c] = "upload"]
    /\ failedSinceAccess' = FALSE
    /\ UNCHANGED <<store, resp, refreshToken, data, result, sends,
                   refreshOutcome, refreshCalls, authHeader>>
    /\ UNCHANGED <<queryVars, classVars, hostVars, cacheVars>>

\* upload() builds its headers (Accept, and Authorization when the token is
\* set) and sends the form data with fetch().
UploadFetch(c) ==
    /\ pc[c] = "upload"
    /\ authHeader' = [authHeader EXCEPT ![c] = uploadHeaders(token[c])]
    /\ sends' = [sends EXCEPT ![c] = @ + 1]
    /\ pc' = [pc EXCEPT ![c] = "fetch"]
    /\ UNCHANGED <<store, token, resp, refreshToken, data, result,
                   refreshOutcome, refreshCalls, failedSinceAccess>>
    /\ UNCHANGED <<queryVars, classVars, hostVars, cacheVars>>

\* The headers are built (Authorization: Bearer token[c] when token[c] is
\* set) and the request is sent with fetch().
Fetch(c) ==
    /\ pc[c] = "getAuthHeaders"
    /\ authHeader' = [authHeader EXCEPT ![c] = getAuthHeaders(token[c])]
    /\ sends' = [sends EXCEPT ![c] = @ + 1]
    /\ pc' = [pc EXCEPT ![c] = "fetch"]
    /\ UNCHANGED <<store, token, resp, refreshToken, data, result,
                   refreshOutcome, refreshCalls, failedSinceAccess>>
    /\ UNCHANGED <<queryVars, classVars, hostVars, cacheVars>>

\* fetch() resolves with a response; handleResponse starts reading the body
\* (await response.json() or response.text()).
FetchResolved(c) ==
    /\ pc[c] = "fetch"
    /\ \E st \in Statuses, b \in Bodies :
          resp' = [resp EXCEPT ![c] = [status |-> st, body |-> b]]
    /\ pc' = [pc EXCEPT ![c] = "handleResponse"]
    /\ UNCHANGED <<store, token, refreshToken, data, result, sends,
                   refreshOutcome, refreshCalls, failedSinceAccess>>
    /\ UNCHANGED authHeader
    /\ UNCHANGED <<queryVars, classVars, hostVars, cacheVars>>

\* fetch() rejects (no response): the call rejects with the transport error.
FetchRejected(c) ==
    /\ pc[c] = "fetch"
    /\ result' = [result EXCEPT ![c] = TransportError]
    /\ pc' = [pc EXCEPT ![c] = "done"]
    /\ UNCHANGED <<store, token, resp, refreshToken, data, sends,
                   refreshOutcome, refreshCalls, failedSinceAccess>>
    /\ UNCHANGED authHeader
    /\ UNCHANGED <<queryVars, classVars, hostVars, cacheVars>>

\* handleResponse calling handleTokenExpiration on every non-OK status.
handleResponseRefreshOnAnyError(c) ==
    /\ pc[c] = "handleResponse"
    /\ IF resp[c].body = "bad"
       THEN /\ result' = [result EXCEPT ![c] = JsonSyntaxError]
            /\ pc' = [pc EXCEPT ![c] = "done"]
            /\ UNCHANGED refreshToken
       ELSE IF resp[c].body = "null"
       THEN /\ result' = [result EXCEPT ![c] = NullDataError]
            /\ pc' = [pc EXCEPT ![c] = "done"]
            /\ UNCHANGED refreshToken
       ELSE IF ~ResponseOk(resp[c].status)
       THEN /\ refreshToken' =
                  [refreshToken EXCEPT ![c] = getItem(store, "refresh_token")]
            /\ pc' = [pc EXCEPT ![c] = "handleTokenExpiration"]
            /\ UNCHANGED result
       ELSE /\ result' = [result EXCEPT ![c] = OkResult(resp[c].status)]
            /\ pc' = [pc EXCEPT ![c] = "done"]
            /\ UNCHANGED refreshToken
    /\ UNCHANGED <<store, token, resp, data, sends,
                   refreshOutcome, refreshCalls, failedSinceAccess>>
    /\ UNCHANGED authHeader
    /\ UNCHANGED <<queryVars, classVars, hostVars, cacheVars>>

\* handleResponse after the body was read.  A 401 calls
\* handleTokenExpiration, which issues getItem('refresh_token').
handleResponse(c) ==
    /\ pc[c] = "handleResponse"
    /\ IF resp[c].body = "bad"
       THEN /\ result' = [result EXCEPT ![c] = JsonSyntaxError]
            /\ pc' = [pc EXCEPT ![c] = "done"]
            /\ UNCHANGED refreshToken
       ELSE IF resp[c].body = "null"
       THEN /\ result' = [result EXCEPT ![c] = NullDataError]
            /\ pc' = [pc EXCEPT ![c] = "done"]
            /\ UNCHANGED refreshToken
       ELSE IF ~ResponseOk(resp[c].status)
       THEN IF resp[c].status = 401
            THEN /\ refreshToken' =
                       [refreshToken EXCEPT ![c] = getItem(store, "refresh_token")]
                 /\ pc' = [pc EXCEPT ![c] = "handleTokenExpiration"]
                 /\ UNCHANGED result
            ELSE /\ result' = [result EXCEPT ![c] = ApiError(resp[c].status)]
                 /\ pc' = [pc EXCEPT ![c] = "done"]
                 /\ UNCHANGED refreshToken
       ELSE /\ result' = [result EXCEPT ![c] = OkResult(resp[c].status)]
            /\ pc' = [pc EXCEPT ![c] = "done"]
            /\ UNCHANGED refreshToken
    /\ UNCHANGED <<store, token, resp, data, sends,
                   refreshOutcome, refreshCalls, failedSinceAccess>>
    /\ UNCHANGED authHeader
    /\ UNCHANGED <<queryVars, classVars, hostVars, cacheVars>>

\* handleTokenExpiration removing the tokens when there is no refresh token.
handleTokenExpirationClearsWithoutToken(c) ==
    /\ pc[c] = "handleTokenExpiration"
    /\ IF refreshToken[c] # Null
       THEN /\ pc' = [pc EXCEPT ![c] = "refresh"]
            /\ refreshCalls' = refreshCalls + 1
            /\ UNCHANGED <<result, store>>
       ELSE /\ pc' = [pc EXCEPT ![c] = "done"]
            /\ result' = [result EXCEPT ![c] = ApiError(resp[c].status)]
            /\ store' = multiRemove(store, RefreshFailureKeys)
            /\ UNCHANGED refreshCalls
    /\ UNCHANGED <<token, resp, refreshToken, data, sends,
                   refreshOutcome, failedSinceAccess>>
    /\ UNCHANGED authHeader
    /\ UNCHANGED <<queryVars, classVars, hostVars, cacheVars>>

\* handleTokenExpiration once the refresh token was read: POST to the refresh
\* endpoint if there is one, else return (and handleResponse throws the 401).
handleTokenExpiration(c) ==
    /\ pc[c] = "handleTokenExpiration"
    /\ IF refreshToken[c] # Null
       THEN /\ pc' = [pc EXCEPT ![c] = "refresh"]
            /\ refreshCalls' = refreshCalls + 1
            /\ UNCHANGED result
       ELSE /\ pc' = [pc EXCEPT ![c] = "done"]
            /\ result' = [result EXCEPT ![c] = ApiError(resp[c].status)]
            /\ UNCHANGED refreshCalls
    /\ UNCHANGED <<store, token, resp, refreshToken, data, sends,
                   refreshOutcome, failedSinceAccess>>
    /\ UNCHANGED authHeader
    /\ UNCHANGED <<queryVars, classVars, hostVars, cacheVars>>

\* The refresh endpoint answers.  OK: the body is read (await
\* response.json()).  Not OK: the tokens are removed.
RefreshResolved(c) ==
    /\ pc[c] = "refresh"
    /\ \/ /\ \E d \in RefreshData : data' = [data EXCEPT ![c] = d]
          /\ pc' = [pc EXCEPT ![c] = "refreshJson"]
          /\ UNCHANGED <<store, refreshOutcome, failedSinceAccess>>
       \/ /\ store' = multiRemove(store, RefreshFailureKeys)
          /\ refreshOutcome' = [refreshOutcome EXCEPT ![c] = "status"]
          /\ failedSinceAccess' = TRUE
          /\ pc' = [pc EXCEPT ![c] = "multiRemove"]
          /\ UNCHANGED data
    /\ UNCHANGED <<token, resp, refreshToken, result, sends, refreshCalls>>
    /\ UNCHANGED authHeader
    /\ UNCHANGED <<queryVars, classVars, hostVars, cacheVars>>

\* The refresh fetch() rejects: the catch block removes the tokens.
RefreshRejected(c) ==
    /\ pc[c] = "refresh"
    /\ store' = multiRemove(store, RefreshFailureKeys)
    /\ refreshOutcome' = [refreshOutcome EXCEPT ![c] = "throw"]
    /\ failedSinceAccess' = TRUE
    /\ pc' = [pc EXCEPT ![c] = "multiRemove"]
    /\ UNCHANGED <<token, resp, refreshToken, data, result, sends, refreshCalls>>
    /\ UNCHANGED authHeader
    /\ UNCHANGED <<queryVars, classVars, hostVars, cacheVars>>

\* The body of the OK refresh response was read: setItem('access_token'), or
\* the catch block when the body was not valid JSON.
RefreshJson(c) ==
    /\ pc[c] = "refreshJson"
    /\ IF data[c].valid
       THEN /\ store' = setItem(store, "access_token", data[c].access_token)
            /\ pc' = [pc EXCEPT ![c] = "setAccessToken"]
            /\ UNCHANGED <<refreshOutcome, failedSinceAccess>>
       ELSE /\ store' = multiRemove(store, RefreshFailureKeys)
            /\ refreshOutcome' = [refreshOutcome EXCEPT ![c] = "parse"]
            /\ failedSinceAccess' = TRUE
            /\ pc' = [pc EXCEPT ![c] = "multiRemove"]
    /\ UNCHANGED <<token, resp, refreshToken, data, result, sends, refreshCalls>>
    /\ UNCHANGED authHeader
    /\ UNCHANGED <<queryVars, classVars, hostVars, cacheVars>>

\* SetAccessTokenDone without the test of data.refresh_token.
SetAccessTokenDoneAlwaysWrites(c) ==
    /\ pc[c] = "setAccessToken"
    /\ store' = setItem(store, "refresh_token", data[c].refresh_token)
    /\ pc' = [pc EXCEPT ![c] = "setRefreshToken"]
    /\ UNCHANGED <<refreshOutcome, result>>
    /\ UNCHANGED <<token, resp, refreshToken, data, sends, refreshCalls,
                   failedSinceAccess>>
    /\ UNCHANGED authHeader
    /\ UNCHANGED <<queryVars, classVars, hostVars, cacheVars>>

\* setItem('access_token') returned: setItem('refresh_token') when the
\* response has one, else handleTokenExpiration returns and the 401 is thrown.
SetAccessTokenDone(c) ==
    /\ pc[c] = "setAccessToken"
    /\ IF data[c].refresh_token # Null
       THEN /\ store' = setItem(store, "refresh_token", data[c].refresh_token)
            /\ pc' = [pc EXCEPT ![c] = "setRefreshToken"]
            /\ UNCHANGED <<refreshOutcome, result>>
       ELSE /\ refreshOutcome' = [refreshOutcome EXCEPT ![c] = "ok"]
            /\ result' = [result EXCEPT ![c] = ApiError(resp[c].status)]
            /\ pc' = [pc EXCEPT ![c] = "done"]
            /\ UNCHANGED store
    /\ UNCHANGED <<token, resp, refreshToken, data, sends, refreshCalls,
                   failedSinceAccess>>
    /\ UNCHANGED authHeader
    /\ UNCHANGED <<queryVars, classVars, hostVars, cacheVars>>

\* SetRefreshTokenDone followed by a new send of the request instead of the
\* throw of the 401 error.
SetRefreshTokenDoneResend(c) ==
    /\ pc[c] = "setRefreshToken"
    /\ refreshOutcome' = [refreshOutcome EXCEPT ![c] = "ok"]
    /\ token' = [token EXCEPT ![c] = getItem(store, "access_token")]
    /\ pc' = [pc EXCEPT ![c] = "getAuthHeaders"]
    /\ UNCHANGED <<store, resp, refreshToken, data, result, sends, refreshCalls,
                   failedSinceAccess>>
    /\ UNCHANGED authHeader
    /\ UNCHANGED <<queryVars, classVars, hostVars, cacheVars>>

\* setItem('refresh_token') returned: handleTokenExpiration returns and
\* handleResponse throws the 401 error.
SetRefreshTokenDone(c) ==
    /\ pc[c] = "setRefreshToken"
    /\ refreshOutcome' = [refreshOutcome EXCEPT ![c] = "ok"]
    /\ result' = [result EXCEPT ![c] = ApiError(resp[c].status)]
    /\ pc' = [pc EXCEPT ![c] = "done"]
    /\ UNCHANGED <<store, token, resp, refreshToken, data, sends, refreshCalls,
                   failedSinceAccess>>
    /\ UNCHANGED authHeader
    /\ UNCHANGED <<queryVars, classVars, hostVars, cacheVars>>

\* multiRemove returned: handleTokenExpiration returns and handleResponse
\* throws the 401 error.
MultiRemoveDone(c) ==
    /\ pc[c] = "multiRemove"
    /\ result' = [result EXCEPT ![c] = ApiError(resp[c].status)]
    /\ pc' = [pc EXCEPT ![c] = "done"]
    /\ UNCHANGED <<store, token, resp, refreshToken, data, sends,
                   refreshOutcome, refreshCalls, failedSinceAccess>>
    /\ UNCHANGED authHeader
    /\ UNCHANGED <<queryVars, classVars, hostVars, cacheVars>>

Next ==
    \E c \in Calls :
        \/ Call(c)
        \/ Upload(c)
        \/ Fetch(c)
        \/ UploadFetch(c)
        \/ FetchResolved(c)
        \/ FetchRejected(c)
        \/ handleResponse(c)
        \/ handleTokenExpiration(c)
        \/ RefreshResolved(c)
        \/ RefreshRejected(c)
        \/ RefreshJson(c)
        \/ SetAccessTokenDone(c)
        \/ SetRefreshTokenDone(c)
        \/ MultiRemoveDone(c)

Spec == Init /\ [][Next]_vars

\* ------------------------------------------- properties of the ApiClient
\* The call's request was answered 401 with a body handleResponse can read,
\* and the call has returned.
Received401(c) ==
    /\ pc[c] = "done"
    /\ resp[c].status = 401
    /\ resp[c].body \in {"json", "text"}

RefreshFailed(c) == refreshOutcome[c] \in {"status", "throw", "parse"}

StoreEmpty(s) == s["access_token"] = Null /\ s["refresh_token"] = Null

\* Calls whose POST to the refresh endpoint is in flight.
RefreshInFlight == {c \in Calls : pc[c] = "refresh"}

\* C1: at most one refresh network call is in flight in every reachable
\* state, and when all of N > 1 concurrent calls received 401 and refreshed,
\* exactly one refresh network call was made for all of them.
C1_SingleFlightRefresh ==
    /\ Cardinality(RefreshInFlight) <= 1
    /\ (NumCalls > 1 /\ \A c \in Calls : Received401(c) /\ refreshOutcome[c] # "none")
          => refreshCalls = 1

\* C2: a call that received 401 and whose refresh succeeded has sent its
\* request a second time, and if that second send was answered 200 the caller
\* got a success.
C2_ResendAfterRefresh ==
    \A c \in Calls :
        (pc[c] = "done" /\ refreshOutcome[c] = "ok")
            => /\ sends[c] = 2
               /\ (resp[c].status = 200 => result[c].ok)

\* C3: when all N calls received 401, either a refresh succeeded and all N
\* calls end in success, or no refresh succeeded and all N calls end in an
\* auth failure.
C3_ConsistentOutcomes ==
    (\A c \in Calls : Received401(c))
        => \/ /\ \E c \in Calls : refreshOutcome[c] = "ok"
              /\ \A c \in Calls : result[c].ok
           \/ /\ \A c \in Calls : refreshOutcome[c] # "ok"
              /\ \A c \in Calls : ~result[c].ok /\ handleError(result[c]).type = AUTH

\* C4: the step in which a refresh attempt ends in failure (non-OK answer,
\* transport error, or unreadable body) leaves neither an access token nor a
\* refresh token in the store; and when that refresh was the only one made,
\* the store is still empty when the call has returned.
C4_FailedRefreshClearsStore ==
    /\ [][\A c \in Calls :
            (~RefreshFailed(c) /\ RefreshFailed(c)') => StoreEmpty(store')]_vars
    /\ [](\A c \in Calls :
            (pc[c] = "done" /\ RefreshFailed(c) /\ refreshCalls = 1)
                => StoreEmpty(store))

\* C4 witness: one refresh was rejected by the endpoint, another one threw,
\* both calls have returned and the store is empty.
C4_Witness ==
    /\ \E c, d \in Calls :
          /\ pc[c] = "done" /\ refreshOutcome[c] = "status"
          /\ pc[d] = "done" /\ refreshOutcome[d] = "throw"
    /\ StoreEmpty(store)

\* C5: a call that received 401 and whose refresh was rejected by the refresh
\* endpoint returns an error that classifies as AUTH and that shouldRetry
\* refuses for every retry count.
C5_RefreshRejectedIsAuthError ==
    \A c \in Calls :
        (pc[c] = "done" /\ refreshOutcome[c] = "status")
            => /\ ~result[c].ok
               /\ handleError(result[c]).type = AUTH
               /\ \A n \in 0..MaxRetryCount : ~shouldRetry(handleError(result[c]), n)

\* C5 witness: a call returned the 401 error after its refresh was rejected.
C5_Witness ==
    \E c \in Calls :
        /\ pc[c] = "done"
        /\ refreshOutcome[c] = "status"
        /\ result[c] = ApiError(401)
        /\ StoreEmpty(store)

\* C6: once a refresh has failed, no refresh network call is made before a
\* new API call is started.
C6_NoRefreshStorm ==
    [][failedSinceAccess => refreshCalls' = refreshCalls]_vars

\* ------------------------------------------------ query layer (react-query)
\* defaultOptions.queries.retry of the QueryClient.
QueriesRetryPlusOne == 3 + 1

QueriesRetry == 3

\* defaultOptions.mutations.retry of the QueryClient.
MutationsRetryTwice == 1 + 1

MutationsRetry == 1

\* The retry count in force: the hook's own `retry` option when it gives one
\* (useAnalytics does), else the default of the QueryClient.
Retry ==
    IF qkind = "mutation"
    THEN MutationsRetry
    ELSE IF retryOption = Undefined THEN QueriesRetry ELSE retryOption

\* A numeric `retry` option retries while failureCount < retry, whatever the
\* error is; the options give no retry function, and nothing calls
\* ErrorHandler.shouldRetry.
RetryerShouldRetryInclusive(count, error) == count <= Retry

RetryerShouldRetry(count, error) == count < Retry

\* retryDelay of the QueryClient: Math.min(1000 * 2 ** attemptIndex, 30000).
retryDelayNoCap(attemptIndex) == 1000 * 2^attemptIndex

retryDelay(attemptIndex) ==
    IF 1000 * 2^attemptIndex < 30000 THEN 1000 * 2^attemptIndex ELSE 30000

\* Statuses of the ApiErrors a fetcher can reject with.
FetcherStatuses == {400, 401, 403, 404, 418, 429, 500, 503}

\* The errors an ApiClient call made by a fetcher can reject with.
FetcherErrors ==
    {ApiError(st) : st \in FetcherStatuses}
        \cup {TransportError, JsonSyntaxError, NullDataError}

\* The methods of AnalyticsService, and what each returns from its catch block.
ServiceMethods ==
    {"getAnalytics", "getSpendingTrends", "getNetWorthHistory",
     "getCategoryBreakdown", "getBudgetPerformance", "getGoalProgress"}

Fallback(m) == IF m = "getAnalytics" THEN "zeros" ELSE "empty"

\* What a query or mutation runs: an ApiClient call whose rejection it hands
\* on, or a method of AnalyticsService.
Fetchers == {"api"} \cup ServiceMethods

ApiIdle ==
    /\ store = SignedIn
    /\ pc = [c \in Calls |-> "idle"]
    /\ token = [c \in Calls |-> Null]
    /\ resp = [c \in Calls |-> NoResponse]
    /\ refreshToken = [c \in Calls |-> Null]
    /\ data = [c \in Calls |-> NoData]
    /\ result = [c \in Calls |-> NoResult]
    /\ sends = [c \in Calls |-> 0]
    /\ refreshOutcome = [c \in Calls |-> "none"]
    /\ refreshCalls = 0
    /\ failedSinceAccess = FALSE
    /\ authHeader = [c \in Calls |-> NoHeader]
    /\ sessionEnded = 0

\* A query (with or without a `retry` option of its own) or a mutation.
InitQuery ==
    /\ ApiIdle
    /\ ClassIdle
    /\ CacheIdle
    /\ qkind \in {"query", "mutation"}
    /\ retryOption \in {Undefined} \cup 0..MaxRetryConfig
    /\ qkind = "mutation" => retryOption = Undefined
    /\ qpc = "idle"
    /\ failureCount = 0
    /\ attempts = 0
    /\ fetcherError = NoResult
    /\ qerror = NoResult
    /\ delay = 0
    /\ fetcher \in Fetchers
    /\ qkind = "mutation" => fetcher = "api"
    /\ caught = NoResult
    /\ qdata = Null

\* The query or mutation starts: the fetcher is run for the first time.
QueryFetch ==
    /\ qpc = "idle"
    /\ attempts' = attempts + 1
    /\ qpc' = "fetching"
    /\ UNCHANGED <<qkind, retryOption, failureCount, fetcherError, qerror, delay>>
    /\ UNCHANGED <<fetcher, caught, qdata>>
    /\ UNCHANGED <<apiVars, classVars, hostVars, cacheVars>>

\* The fetcher resolves with the data of the response.
FetcherResolved ==
    /\ qpc = "fetching"
    /\ qpc' = "success"
    /\ qdata' = "data"
    /\ UNCHANGED <<qkind, retryOption, failureCount, attempts, fetcherError,
                   qerror, delay, fetcher, caught>>
    /\ UNCHANGED <<apiVars, classVars, hostVars, cacheVars>>

\* The catch block of the AnalyticsService method throwing the error on.
ServiceCatchRethrows ==
    /\ qpc = "fetching"
    /\ fetcher \in ServiceMethods
    /\ \E e \in FetcherErrors :
          /\ fetcherError' = e
          /\ IF RetryerShouldRetry(failureCount, e)
             THEN /\ delay' = retryDelay(failureCount)
                  /\ failureCount' = failureCount + 1
                  /\ qpc' = "retryDelay"
                  /\ UNCHANGED qerror
             ELSE /\ qerror' = e
                  /\ qpc' = "error"
                  /\ UNCHANGED <<failureCount, delay>>
    /\ UNCHANGED <<qkind, retryOption, attempts, fetcher, caught, qdata>>
    /\ UNCHANGED <<apiVars, classVars, hostVars, cacheVars>>

\* The ApiClient call of an AnalyticsService method rejects: the catch block
\* of the method logs the error and returns the fallback value, so the
\* fetcher resolves.
ServiceCatch ==
    /\ qpc = "fetching"
    /\ fetcher \in ServiceMethods
    /\ \E e \in FetcherErrors : caught' = e
    /\ qdata' = Fallback(fetcher)
    /\ qpc' = "success"
    /\ UNCHANGED <<qkind, retryOption, failureCount, attempts, fetcherError,
                   qerror, delay, fetcher>>
    /\ UNCHANGED <<apiVars, classVars, hostVars, cacheVars>>

\* The fetcher rejects: the retryer schedules a retry or rejects with the error.
FetcherRejected ==
    /\ qpc = "fetching"
    /\ fetcher = "api"
    /\ \E e \in FetcherErrors :
          /\ fetcherError' = e
          /\ IF RetryerShouldRetry(failureCount, e)
             THEN /\ delay' = retryDelay(failureCount)
                  /\ failureCount' = failureCount + 1
                  /\ qpc' = "retryDelay"
                  /\ UNCHANGED qerror
             ELSE /\ qerror' = e
                  /\ qpc' = "error"
                  /\ UNCHANGED <<failureCount, delay>>
    /\ UNCHANGED <<qkind, retryOption, attempts, fetcher, caught, qdata>>
    /\ UNCHANGED <<apiVars, classVars, hostVars, cacheVars>>

\* The retry delay has elapsed: the fetcher is run again.
RetryDelayElapsed ==
    /\ qpc = "retryDelay"
    /\ attempts' = attempts + 1
    /\ qpc' = "fetching"
    /\ UNCHANGED <<qkind, retryOption, failureCount, fetcherError, qerror, delay>>
    /\ UNCHANGED <<fetcher, caught, qdata>>
    /\ UNCHANGED <<apiVars, classVars, hostVars, cacheVars>>

NextQuery ==
    \/ QueryFetch
    \/ FetcherResolved
    \/ FetcherRejected
    \/ ServiceCatch
    \/ RetryDelayElapsed

SpecQuery == InitQuery /\ [][NextQuery]_vars

\* C7: a query is attempted at most retry + 1 times, 4 times with the default
\* retry count; when it gives up, every one of its retry + 1 attempts has
\* failed and the caller receives the error of the last attempt; with
\* retry = 2 and transport failures the caller receives a NETWORK error after
\* the 3rd attempt.
C7_QueryRetryBound ==
    qkind = "query" =>
        /\ attempts <= Retry + 1
        /\ (retryOption = Undefined => attempts <= 4)
        /\ (qpc = "error" => (attempts = Retry + 1 /\ qerror = fetcherError))
        /\ (qpc = "error" /\ retryOption = 2 /\ qerror = TransportError)
              => (attempts = 3 /\ handleError(qerror).type = NETWORK)

\* C7 witness: a query with retry = 2 gave up with a transport error after
\* its 3rd attempt.
C7_Witness ==
    /\ qkind = "query"
    /\ retryOption = 2
    /\ qpc = "error"
    /\ attempts = 3
    /\ qerror = TransportError

\* C7 witness for the default retry count: 4 attempts were made.
C7_WitnessDefault ==
    /\ qkind = "query"
    /\ retryOption = Undefined
    /\ qpc = "error"
    /\ attempts = 4

\* The failures the claim calls non-retryable: AUTH (401/403), VALIDATION
\* (400), SERVER for 404, UNKNOWN.
ClaimedNonRetryable(e) ==
    \/ handleError(e).type \in {AUTH, VALIDATION, UNKNOWN}
    \/ e.status = 404

\* C8: a failure that classifies as non-retryable is never retried by the
\* query layer: no retry is pending after such a failure.
C8_NonRetryableAttemptedOnce ==
    qpc = "retryDelay" => ~ClaimedNonRetryable(fetcherError)

\* C9: a mutation runs its fetcher, and so sends its request, at most 2 times.
C9_MutationRetriedOnce ==
    qkind = "mutation" => attempts <= 2

\* C9 witness: a mutation failed twice and gave up after its 2nd attempt.
C9_Witness ==
    /\ qkind = "mutation"
    /\ qpc = "error"
    /\ attempts = 2
    /\ failureCount = 1

\* ------------------------------------------------------- error classifier
\* Statuses of the raw errors handed to handleError (Undefined: no status).
ClassifyStatuses ==
    {Undefined, 0, 400, 401, 403, 404, 418, 429, 499, 500, 502, 599, 600, 999}

\* Raw errors: a status or none, a message with any of the substrings
\* isNetworkError looks for, and possibly a `type` field.
RawErrors ==
    [ok : {FALSE}, name : {"Error"}, status : ClassifyStatuses,
     words : SUBSET Keywords, type : {Null, NETWORK, AUTH}]

InitClassify ==
    /\ ApiIdle
    /\ QueryIdle
    /\ CacheIdle
    /\ cerr \in RawErrors
    /\ ccount \in 0..MaxRetryCount
    /\ cout = Null
    /\ cretry = Null
    /\ effects = <<>>

\* handleError showing the error before it logs it.
HandleErrorShowsFirst ==
    /\ cout = Null
    /\ cout' = handleError(cerr).type
    /\ \E dev \in BOOLEAN :
          effects' = effects \o showError(handleError(cerr))
                             \o logError(handleError(cerr), dev)
    /\ UNCHANGED <<cerr, ccount, cretry>>
    /\ UNCHANGED <<apiVars, queryVars, hostVars, cacheVars>>

\* useErrorHandler().handleError(cerr): it classifies the error, logs the
\* AppError, shows it, and returns it.
HandleError ==
    /\ cout = Null
    /\ cout' = handleError(cerr).type
    /\ \E dev \in BOOLEAN :
          effects' = effects \o logError(handleError(cerr), dev)
                             \o showError(handleError(cerr))
    /\ UNCHANGED <<cerr, ccount, cretry>>
    /\ UNCHANGED <<apiVars, queryVars, hostVars, cacheVars>>

\* ErrorHandler.shouldRetry(appError, ccount) on the AppError returned.
ShouldRetry ==
    /\ cout # Null
    /\ cretry = Null
    /\ cretry' = IF shouldRetry(handleError(cerr), ccount) THEN "true" ELSE "false"
    /\ UNCHANGED <<cerr, cout, ccount, effects>>
    /\ UNCHANGED <<apiVars, queryVars, hostVars, cacheVars>>

NextClassify ==
    \/ HandleError
    \/ ShouldRetry

SpecClassify == InitClassify /\ [][NextClassify]_vars

\* A failure without a response: the error has no status and either a
\* message of a transport failure or the NETWORK type.
ClaimedTransportFailure(e) ==
    /\ ~Truthy(e.status)
    /\ (e.words # {} \/ e.type = NETWORK)

\* The kind the classification table gives an error.
ClaimedType(e) ==
    CASE e.status = 400 -> VALIDATION
      [] e.status \in {401, 403} -> AUTH
      [] e.status \in {404, 429} -> SERVER
      [] e.status \in 500..599 -> SERVER
      [] ClaimedTransportFailure(e) -> NETWORK
      [] OTHER -> UNKNOWN

\* C10: handleError returns 400 -> VALIDATION, 401 and 403 -> AUTH, 404 and
\* 429 and 500..599 -> SERVER, a transport failure -> NETWORK, and every other
\* status (600 and above, missing or zero) -> UNKNOWN.
C10_ClassificationByStatus ==
    cout # Null => cout = ClaimedType(cerr)

\* The retry verdict the classification table gives an error.
ClaimedRetryable(e) ==
    \/ ClaimedType(e) = NETWORK
    \/ e.status = 429
    \/ e.status \in 500..599

\* C11: below the attempt limit, shouldRetry is true exactly for a NETWORK
\* error, for status 429 and for every status in 500..599, and false for 400,
\* 401, 403, 404 and UNKNOWN errors.
C11_RetryVerdict ==
    (cretry # Null /\ ccount < 3) => (cretry = "true" <=> ClaimedRetryable(cerr))

\* min(baseDelay * 2^a, capMs) with baseDelay = 1000 and capMs = 30000,
\* written out for the attempt indexes below and above the cap.
ClaimedDelay(a) ==
    CASE a = 0 -> 1000
      [] a = 1 -> 2000
      [] a = 2 -> 4000
      [] a = 3 -> 8000
      [] a = 4 -> 16000
      [] OTHER -> 30000

\* C12: the delay before retry number a + 1 (attempt index a >= 0) is
\* min(1000 * 2^a, 30000); it never exceeds 30000 ms and never decreases from
\* one retry to the next.
C12_BackoffDelay ==
    /\ [](qpc = "retryDelay" =>
            (delay = ClaimedDelay(failureCount - 1) /\ delay <= 30000))
    /\ [][delay' >= delay]_vars

\* C12 witness: the 6th retry is pending with the capped delay.
C12_Witness ==
    /\ qpc = "retryDelay"
    /\ failureCount = 6
    /\ delay = 30000

\* ------------------------------------ further properties of the ApiClient
\* C13: once a call has returned after a failed refresh, exactly one
\* session-ended signal has been given to the host.
C13_SessionEndedOnce ==
    (\E c \in Calls : pc[c] = "done" /\ RefreshFailed(c)) => sessionEnded = 1

\* The steps of a call that the JavaScript event loop runs by itself: the
\* continuations of storage operations and of body reads.  The answers of
\* the network (FetchResolved, FetchRejected, RefreshResolved,
\* RefreshRejected) are not among them: fetch() is called without a timeout
\* or an abort signal, and Config.API_TIMEOUT is used nowhere.
LocalStep(c) ==
    \/ Fetch(c)
    \/ UploadFetch(c)
    \/ handleResponse(c)
    \/ handleTokenExpiration(c)
    \/ RefreshJson(c)
    \/ SetAccessTokenDone(c)
    \/ SetRefreshTokenDone(c)
    \/ MultiRemoveDone(c)

\* The ApiClient under the scheduling of the event loop: a continuation that
\* is ready is eventually run.
SpecFair == Init /\ [][Next]_vars /\ \A c \in Calls : WF_vars(LocalStep(c))

\* C14: every refresh that starts reaches a terminal outcome and the call
\* that awaits it returns to its caller.
C14_RefreshLiveness ==
    \A c \in Calls : (pc[c] = "refresh") ~> (pc[c] = "done")

\* C15: every request that was sent ends: it is answered, or it fails (by
\* the transport timeout when no response arrives).
C15_TransportTimeout ==
    \A c \in Calls : (pc[c] = "fetch") ~> (pc[c] # "fetch")

\* The Authorization header for the access token a of the store.
ExpectedHeader(a) == IF a = Null THEN NoHeader ELSE Bearer(a)

C19_BoundedWork ==
    /\ \A c \in Calls : sends[c] <= 2
    /\ refreshCalls <= Cardinality({c \in Calls : resp[c].status = 401})
    /\ \A c \in Calls : Received401(c) => result[c] = ApiError(401)

\* C19 witness: a call was answered 401, refreshed and has returned.
C19_Witness ==
    \E c \in Calls :
        /\ Received401(c)
        /\ refreshOutcome[c] = "ok"
        /\ refreshCalls = 1
        /\ sends[c] = 1

\* C20: the step that stores the access token of a successful refresh makes
\* the stored access token the returned one; the next step replaces the
\* stored refresh token by the returned one if there is one and leaves it
\* unchanged if not; and when that refresh was the only one, the store holds
\* these values when the call has returned.
C20_RefreshWritesTokens ==
    /\ [][\A c \in Calls :
            (pc[c] = "refreshJson" /\ pc'[c] = "setAccessToken")
                => /\ store'["access_token"] = data[c].access_token
                   /\ store'["refresh_token"] = store["refresh_token"]]_vars
    /\ [][\A c \in Calls :
            (pc[c] = "setAccessToken" /\ pc'[c] # "setAccessToken")
                => /\ store'["access_token"] = store["access_token"]
                   /\ store'["refresh_token"] =
                         IF data[c].refresh_token # Null
                         THEN data[c].refresh_token
                         ELSE store["refresh_token"]]_vars
    /\ [](\A c \in Calls :
            (pc[c] = "done" /\ refreshOutcome[c] = "ok" /\ refreshCalls = 1)
                => /\ store["access_token"] = data[c].access_token
                   /\ store["refresh_token"] =
                         IF data[c].refresh_token # Null
                         THEN data[c].refresh_token
                         ELSE refreshToken[c])

\* C20 witness: one refresh rotated the refresh token, a later one did not,
\* and the store holds the new access token and the rotated refresh token.
C20_Witness ==
    /\ \E c, d \in Calls :
          /\ pc[c] = "done" /\ refreshOutcome[c] = "ok"
          /\ data[c].refresh_token = "R2"
          /\ pc[d] = "done" /\ refreshOutcome[d] = "ok"
          /\ data[d].refresh_token = Null
    /\ store["access_token"] = "T2"
    /\ store["refresh_token"] = "R2"

\* ---------------------------------------------------------- the query cache
\* The hooks of useAnalytics.ts read through react-query's cache, configured
\* by the queryClient; the cache itself is the library's.  One key is
\* modelled.  The clock advances in steps of Tick.
staleTimeWholeLife == 10 * 60 * 1000

staleTime == 5 * 60 * 1000

cacheTime == 10 * 60 * 1000

Tick == 150 * 1000

staleAt(e) == e.fetchedAt + staleTime

expiresAt(e) == e.fetchedAt + cacheTime

HasEntry == entry # NoEntry

IsExpired == HasEntry /\ now >= expiresAt(entry)

IsMissing == ~HasEntry \/ IsExpired

IsStale == HasEntry /\ ~IsExpired /\ now >= staleAt(entry)

IsFresh == HasEntry /\ ~IsExpired /\ now < staleAt(entry)

\* A fetch of the key: its place in the order of issue, and what started it.
NewFetch(kind) == [issue |-> issued + 1, kind |-> kind]

FetchKinds == {"background", "blocking", "refetch"}

Fetches == [issue : 1..MaxFetches, kind : FetchKinds]

\* A response replaces the entry unless a fetch issued later already wrote it.
IsNewerAlways(f) == TRUE

IsNewer(f) == f.issue > entry.issue

InitCache ==
    /\ ApiIdle
    /\ QueryIdle
    /\ ClassIdle
    /\ CacheIdle

\* Time passes.
ClockTick ==
    /\ now < MaxTicks * Tick
    /\ now' = now + Tick
    /\ UNCHANGED <<entry, inflight, issued, rstate, rvalue, arrived>>
    /\ UNCHANGED <<apiVars, queryVars, classVars, hostVars>>

\* A read of a fresh entry returns the value and touches nothing else.
ReadFresh(r) ==
    /\ rstate[r] = "idle"
    /\ IsFresh
    /\ rstate' = [rstate EXCEPT ![r] = "served"]
    /\ rvalue' = [rvalue EXCEPT ![r] = entry.value]
    /\ UNCHANGED <<now, entry, inflight, issued, arrived>>
    /\ UNCHANGED <<apiVars, queryVars, classVars, hostVars>>

\* A read of a stale entry returns the stale value at once, and starts a
\* background refetch unless a fetch of the key is already in flight.
ReadStale(r) ==
    /\ rstate[r] = "idle"
    /\ IsStale
    /\ inflight # {} \/ issued < MaxFetches
    /\ rstate' = [rstate EXCEPT ![r] = "served"]
    /\ rvalue' = [rvalue EXCEPT ![r] = entry.value]
    /\ IF inflight = {}
       THEN /\ inflight' = {NewFetch("background")}
            /\ issued' = issued + 1
       ELSE UNCHANGED <<inflight, issued>>
    /\ UNCHANGED <<now, entry, arrived>>
    /\ UNCHANGED <<apiVars, queryVars, classVars, hostVars>>

\* A read of a missing or expired key waits for a fetch, its own or the one
\* already in flight.
ReadMissing(r) ==
    /\ rstate[r] = "idle"
    /\ IsMissing
    /\ inflight # {} \/ issued < MaxFetches
    /\ rstate' = [rstate EXCEPT ![r] = "waiting"]
    /\ IF inflight = {}
       THEN /\ inflight' = {NewFetch("blocking")}
            /\ issued' = issued + 1
       ELSE UNCHANGED <<inflight, issued>>
    /\ UNCHANGED <<now, entry, rvalue, arrived>>
    /\ UNCHANGED <<apiVars, queryVars, classVars, hostVars>>

\* The consumer's refetch(): a new request for the key, whatever is in flight.
Refetch ==
    /\ issued < MaxFetches
    /\ \E r \in Readers : rstate[r] # "idle"
    /\ inflight' = inflight \cup {NewFetch("refetch")}
    /\ issued' = issued + 1
    /\ UNCHANGED <<now, entry, rstate, rvalue, arrived>>
    /\ UNCHANGED <<apiVars, queryVars, classVars, hostVars>>

\* A fetch succeeds: the value it brings is named by its order of issue.
FetchSucceeded(f) ==
    /\ f \in inflight
    /\ inflight' = inflight \ {f}
    /\ entry' = IF IsNewer(f)
                THEN [value |-> f.issue, fetchedAt |-> now, issue |-> f.issue]
                ELSE entry
    /\ rstate' = [r \in Readers |->
                    IF rstate[r] = "waiting" THEN "served" ELSE rstate[r]]
    /\ rvalue' = [r \in Readers |->
                    IF rstate[r] = "waiting" THEN entry'.value ELSE rvalue[r]]
    /\ arrived' = Append(arrived, f.issue)
    /\ UNCHANGED <<now, issued>>
    /\ UNCHANGED <<apiVars, queryVars, classVars, hostVars>>

\* A fetch fails: the entry stays, a waiting reader fails with the last fetch.
FetchFailed(f) ==
    /\ f \in inflight
    /\ inflight' = inflight \ {f}
    /\ rstate' = [r \in Readers |->
                    IF rstate[r] = "waiting" /\ inflight' = {}
                    THEN "failed" ELSE rstate[r]]
    /\ UNCHANGED <<now, entry, issued, rvalue, arrived>>
    /\ UNCHANGED <<apiVars, queryVars, classVars, hostVars>>

\* The hook unmounts; a later mount reads again.
Unmount(r) ==
    /\ rstate[r] \in {"served", "failed"}
    /\ rstate' = [rstate EXCEPT ![r] = "idle"]
    /\ rvalue' = [rvalue EXCEPT ![r] = 0]
    /\ UNCHANGED <<now, entry, inflight, issued, arrived>>
    /\ UNCHANGED <<apiVars, queryVars, classVars, hostVars>>

NextCache ==
    \/ ClockTick
    \/ Refetch
    \/ \E r \in Readers : ReadFresh(r)
    \/ \E r \in Readers : ReadStale(r)
    \/ \E r \in Readers : ReadMissing(r)
    \/ \E r \in Readers : Unmount(r)
    \/ \E f \in Fetches : FetchSucceeded(f)
    \/ \E f \in Fetches : FetchFailed(f)

SpecCache == InitCache /\ [][NextCache]_vars

\* ------------------------------------------------------------------- C16
\* C16: a read of a key whose entry is stale but not expired (more than five
\* and less than ten minutes after it was fetched) is served the cached value
\* in the same step, without waiting, and a fetch of the key is in flight
\* afterwards: the read issues one fetch when none was in flight and none when
\* one was, so readers of the same stale entry share one background refetch.
ClaimedStale ==
    /\ entry.issue > 0
    /\ entry.fetchedAt + 300000 < now
    /\ now < entry.fetchedAt + 600000

BackgroundFetches == {f \in inflight : f.kind = "background"}

C16_StaleRead ==
    [][\A r \in Readers :
         (rstate[r] = "idle" /\ rstate'[r] # "idle" /\ ClaimedStale) =>
            /\ rstate'[r] = "served"
            /\ rvalue'[r] = entry.value
            /\ entry' = entry
            /\ inflight' # {}
            /\ issued' = (IF inflight = {} THEN issued + 1 ELSE issued)
            /\ Cardinality(inflight') = (IF inflight = {} THEN 1 ELSE Cardinality(inflight))]_vars

C16_OneBackgroundRefetch == Cardinality(BackgroundFetches) <= 1

RECURSIVE MaxOf(_)
MaxOf(q) == IF Len(q) = 1 THEN q[1]
            ELSE IF q[1] > MaxOf(Tail(q)) THEN q[1] ELSE MaxOf(Tail(q))

C17_LastWriterWins ==
    arrived # <<>> => entry.value = MaxOf(arrived) /\ entry.issue = entry.value

\* A answered after B, both have resolved, and the entry holds B's value.
C17_Witness ==
    /\ inflight = {}
    /\ \E i, j \in 1..Len(arrived) :
          /\ i < j
          /\ arrived[i] > arrived[j]
          /\ entry.value = arrived[i]

\* ------------------------------------------ the credential store under races
\* The calls whose refresh ended in failure: each of them has run
\* AsyncStorage.multiRemove once.
ClearOperations == {c \in Calls : RefreshFailed(c)}

\* C21: when all calls were answered 401 and have returned, and a refresh
\* failed, the store was cleared once, not once per call.
C21_ClearedOnce ==
    ((\A c \in Calls : Received401(c)) /\ ClearOperations # {})
        => Cardinality(ClearOperations) = 1

\* Call c is between the two setItem calls of a refresh whose response
\* rotates both tokens: the store holds the new access token together with
\* the refresh token that the refresh used up.
TornPair(c) ==
    /\ pc[c] = "setAccessToken"
    /\ data[c].refresh_token # Null
    /\ store["access_token"] = data[c].access_token
    /\ store["refresh_token"] = refreshToken[c]
    /\ store["refresh_token"] # data[c].refresh_token

\* Call d reads the store in this step: the access token when it starts, or
\* the refresh token when handleTokenExpiration starts.
ReadsStore(d) ==
    \/ pc[d] = "idle" /\ pc'[d] # "idle"
    \/ pc[d] = "handleResponse" /\ pc'[d] = "handleTokenExpiration"

\* C22: no call reads the store while another call's refresh has written the
\* new access token but not yet the new refresh token.
C22_NoTornPair ==
    [][\A c, d \in Calls : (c # d /\ TornPair(c)) => ~ReadsStore(d)]_vars

\* C23: a step of a call whose request was not answered 401 (no response
\* yet, another status, or a transport failure) leaves the stored access
\* token and refresh token as they are, and such a call never enters the
\* refresh path.
C23_OnlyRefreshWritesTokens ==
    /\ [][\A c \in Calls :
            (pc'[c] # pc[c] /\ resp'[c].status # 401)
                => /\ store'["access_token"] = store["access_token"]
                   /\ store'["refresh_token"] = store["refresh_token"]]_vars
    /\ [](\A c \in Calls :
            resp[c].status # 401
                => /\ refreshOutcome[c] = "none"
                   /\ pc[c] \in {"idle", "getAuthHeaders", "upload", "fetch",
                                 "handleResponse", "done"})

\* C23 witness: one call ended in success, the other failed with status 500,
\* and the store holds the tokens it started with.
C23_Witness ==
    /\ \E c, d \in Calls :
          /\ pc[c] = "done" /\ result[c] = OkResult(200)
          /\ pc[d] = "done" /\ result[d] = ApiError(500)
    /\ store = SignedIn

\* C25: a call answered with a success status and a body that is declared
\* application/json but is not valid JSON fails, and its error classifies as
\* SERVER.
C25_UnparsableBodyIsServerError ==
    \A c \in Calls :
        (pc[c] = "done" /\ ResponseOk(resp[c].status) /\ resp[c].body = "bad")
            => /\ ~result[c].ok
               /\ handleError(result[c]).type = SERVER

\* C28: the step of handleTokenExpiration that finds no refresh token makes
\* no refresh network call, leaves the store as it is and ends the call with
\* the 401 error; such a call has made no refresh attempt when it has returned.
C28_NoRefreshTokenNoRefresh ==
    /\ [][\A c \in Calls :
            (pc[c] = "handleTokenExpiration" /\ pc'[c] # pc[c]
                /\ refreshToken[c] = Null)
                => /\ refreshCalls' = refreshCalls
                   /\ store' = store
                   /\ pc'[c] = "done"
                   /\ result'[c] = ApiError(401)]_vars
    /\ [](\A c \in Calls :
            (Received401(c) /\ refreshToken[c] = Null)
                => (refreshOutcome[c] = "none" /\ result[c] = ApiError(401)))

\* C28 witness: a call was answered 401 with an access token but no refresh
\* token stored; it has returned the 401 error, no refresh call was made and
\* the access token is still stored.
C28_Witness ==
    /\ \E c \in Calls :
          /\ Received401(c)
          /\ refreshToken[c] = Null
          /\ authHeader[c] = Bearer("T2")
          /\ result[c] = ApiError(401)
    /\ refreshCalls = 0
    /\ store = AccessOnly

\* C29: when all calls have returned and the refresh of at least one of them
\* succeeded, the store holds an access token and a refresh token.
C29_SuccessfulRefreshNotUndone ==
    ((\A c \in Calls : pc[c] = "done") /\ (\E c \in Calls : refreshOutcome[c] = "ok"))
        => (store["access_token"] # Null /\ store["refresh_token"] # Null)

\* ------------------------------------------------------ AnalyticsService
\* C24: no failure of an API call is turned into a successful result below
\* the query layer: a fetcher that resolved has caught no error.
C24_NoSwallowedErrors ==
    qpc = "success" => caught = NoResult

\* C30: a query built on a method of AnalyticsService never sees a rejection:
\* when the API call of the method fails, the fetcher resolves with the fixed
\* fallback value (all-zero analytics for getAnalytics, an empty list for the
\* others), the fetcher is run once, and no retry is ever scheduled.
C30_ServiceNeverRejects ==
    fetcher \in ServiceMethods =>
        /\ qpc \notin {"error", "retryDelay"}
        /\ attempts <= 1
        /\ failureCount = 0
        /\ qerror = NoResult
        /\ caught # NoResult =>
              /\ qpc = "success"
              /\ qdata = (IF fetcher = "getAnalytics" THEN "zeros" ELSE "empty")

\* C30 witness: useAnalytics (retry: 3) ran getAnalytics once, the API call
\* failed for want of a connection, and the query succeeded with the zeros.
C30_Witness ==
    /\ fetcher = "getAnalytics"
    /\ retryOption = 3
    /\ qpc = "success"
    /\ attempts = 1
    /\ caught = TransportError
    /\ qdata = "zeros"

\* ------------------------------------------- logging and the attempt limit
\* Where the handled error was recorded and where it was shown.
Recorded == {i \in 1..Len(effects) : effects[i].op = "console.error"}

Shown == {i \in 1..Len(effects) : effects[i].op = "Toast.show"}

\* C26: an error handed to handleError is recorded once, with the type it was
\* classified as and its timestamp, and shown once, and the record comes
\* before the toast.
C26_LogBeforeSurface ==
    /\ cout = Null => effects = <<>>
    /\ cout # Null =>
          /\ Cardinality(Recorded) = 1
          /\ Cardinality(Shown) = 1
          /\ \A i \in Recorded :
                /\ effects[i].type = cout
                /\ effects[i].timestamp = NewDate
                /\ \A j \in Shown : i < j /\ effects[j].type = cout

\* C26 witness: an AUTH error was handled in a development build: recorded,
\* traced, then shown.
C26_Witness ==
    /\ cout = AUTH
    /\ Len(effects) = 3
    /\ effects[1].op = "console.error"
    /\ effects[3].op = "Toast.show"

\* The number of attempts of a loop that asks shouldRetry(e, n) after each
\* failed attempt, n being the number of retries made so far.
RECURSIVE RetryLoopAttempts(_, _)
RetryLoopAttempts(e, n) ==
    IF shouldRetry(e, n) THEN 1 + RetryLoopAttempts(e, n + 1) ELSE 1

\* C27: shouldRetry is false for every error once retryCount >= 3, so a retry
\* loop driven by it from retryCount 0 makes at most 4 attempts.
C27_AttemptLimit ==
    cretry # Null =>
        /\ ccount >= 3 => cretry = "false"
        /\ \A n \in 3..MaxRetryCount : ~shouldRetry(handleError(cerr), n)
        /\ RetryLoopAttempts(handleError(cerr), 0) <= 4

\* C27 witness: a NETWORK error, retryable below the limit, was refused at
\* retryCount 3; a loop on it makes 4 attempts.
C27_Witness ==
    /\ cout = NETWORK
    /\ ccount = 3
    /\ cretry = "false"
    /\ shouldRetry(handleError(cerr), 2)
    /\ RetryLoopAttempts(handleError(cerr), 0) = 4

====
